---------------------------- MODULE Spec2Model ----------------------------
(***************************************************************************)
(* Record validation of the Python09 exercises: the pydantic models        *)
(* SpaceStation (ex0), AlienContact (ex1), CrewMember and SpaceMission     *)
(* (ex2).  Constructing a model runs the field phase (every declared       *)
(* field is coerced and checked against its Field(...) constraints, all    *)
(* failures collected) and then, only when no field failed, the            *)
(* model_validator(mode="after") of the class, whose `if ...: raise`       *)
(* statements run in order and stop at the first one that raises.          *)
(*                                                                         *)
(* Conventions.  A str is [pre, len]: its leading characters and its       *)
(* length, the characters after pre being "_".  A float is an integer      *)
(* number of tenths (8.5 is 85, 7.0 is 70).  A datetime is a clock tick,   *)
(* and what datetime.now() returns is the tick "now".  List indexes in     *)
(* error locations are 0-based as in pydantic's loc tuples; -1 means "no   *)
(* index".                                                                 *)
(***************************************************************************)
EXTENDS Integers, Sequences, FiniteSets, TLC

VARIABLES
    pc,         \* "idle" | "validator" | "returned" | "raised"
    schema,     \* the class being constructed, "none" when idle
    raw,        \* the keyword arguments of the call (field name -> raw value)
    record,     \* the constructed model (self), once the field phase passed
    line,       \* next rule (1..4) of the running model_validator, 0 if none
    evaluated,  \* rules of the model_validator whose condition was evaluated
    errors,     \* e.errors() of a pydantic ValidationError from the field phase
    ruleError   \* the ValueError a model_validator raised, <<>> if none

vars == <<pc, schema, raw, record, line, evaluated, errors, ruleError>>

---------------------------------------------------------------------------
(* Bounds of the explored inputs *)

\* longest crew list whose members are enumerated freely
MaxCrew == 2
\* number of keyword arguments in which a call may differ from an example
MaxChanges == 2

---------------------------------------------------------------------------
(* Raw values: what a caller may pass for a keyword argument *)

Missing == [kind |-> "missing", v |-> 0]
NoneV == [kind |-> "none", v |-> 0]
Callable == [kind |-> "callable", v |-> 0]
IntV(n) == [kind |-> "int", v |-> n]
FloatV(tenths) == [kind |-> "float", v |-> tenths]
BoolV(b) == [kind |-> "bool", v |-> b]
StrV(s) == [kind |-> "str", v |-> s]
DateV(t) == [kind |-> "datetime", v |-> t]
ListV(xs) == [kind |-> "list", v |-> xs]
DictV(d) == [kind |-> "dict", v |-> d]
InstanceV(m) == [kind |-> "instance", v |-> m]
EnumV(tag) == [kind |-> "enum", v |-> tag]

Tenths(whole, frac) == whole * 10 + frac

Min(a, b) == IF a <= b THEN a ELSE b

\* the str of length n that starts with prefix and goes on with "_"
Pad(prefix, n) == [pre |-> SubSeq(prefix, 1, Min(n, Len(prefix))), len |-> n]

\* the str with exactly these characters
Lit(chars) == Pad(chars, Len(chars))

\* s[:n], as a sequence of characters
Slice(s, n) ==
    [i \in 1..Min(n, s.len) |-> IF i <= Len(s.pre) THEN s.pre[i] ELSE "_"]

\* s.startswith(p), p a sequence of characters
StartsWith(s, p) == s.len >= Len(p) /\ Slice(s, Len(p)) = p

---------------------------------------------------------------------------
(* The declared fields, in declaration order.  A field is                  *)
(* [name, type, dflt, constraints]; dflt is "required" (Field(...) or      *)
(* Field()), "factory" (default_factory=datetime.now) or "value" with the  *)
(* default in dval.                                                        *)

Required(name, type, cs) ==
    [name |-> name, type |-> type, dflt |-> "required", dval |-> NoneV,
     constraints |-> cs]
Defaulted(name, type, dval, cs) ==
    [name |-> name, type |-> type, dflt |-> "value", dval |-> dval,
     constraints |-> cs]
Factory(name, type) ==
    [name |-> name, type |-> type, dflt |-> "factory", dval |-> NoneV,
     constraints |-> <<>>]

C(op, arg) == [op |-> op, arg |-> arg]

ContactType == {"radio", "visual", "physical", "telepathic"}

Rank == {"cadet", "officer", "lieutenant", "captain", "commander"}

\* the str value of an enum member (both enums are str-backed)
EnumValue(tag) ==
    CASE tag = "radio" -> <<"r", "a", "d", "i", "o">>
      [] tag = "visual" -> <<"v", "i", "s", "u", "a", "l">>
      [] tag = "physical" -> <<"p", "h", "y", "s", "i", "c", "a", "l">>
      [] tag = "telepathic" -> <<"t", "e", "l", "e", "p", "a", "t", "h", "i", "c">>
      [] tag = "cadet" -> <<"c", "a", "d", "e", "t">>
      [] tag = "officer" -> <<"o", "f", "f", "i", "c", "e", "r">>
      [] tag = "lieutenant" -> <<"l", "i", "e", "u", "t", "e", "n", "a", "n", "t">>
      [] tag = "captain" -> <<"c", "a", "p", "t", "a", "i", "n">>
      [] tag = "commander" -> <<"c", "o", "m", "m", "a", "n", "d", "e", "r">>

SpaceStationFields ==
    << Required("station_id", "str", <<C("min_length", 3), C("max_length", 10)>>),
       Required("name", "str", <<C("min_length", 1), C("max_length", 50)>>),
       Required("crew_size", "int", <<C("ge", 1), C("le", 20)>>),
       Required("power_level", "float", <<C("ge", Tenths(0, 0)), C("le", Tenths(100, 0))>>),
       Required("oxygen_level", "float", <<C("ge", Tenths(0, 0)), C("le", Tenths(100, 0))>>),
       Factory("last_maintenance", "datetime"),
       Defaulted("is_operational", "bool", BoolV(TRUE), <<>>),
       Defaulted("notes", "optstr", NoneV, <<C("max_length", 200)>>) >>

AlienContactFields ==
    << Required("contact_id", "str", <<C("min_length", 5), C("max_length", 15)>>),
       Factory("timestamp", "datetime"),
       Required("location", "str", <<C("min_length", 3), C("max_length", 100)>>),
       Required("contact_type", "ContactType", <<>>),
       Required("signal_strength", "float", <<C("ge", Tenths(0, 0)), C("le", Tenths(10, 0))>>),
       Required("duration_minutes", "int", <<C("ge", 1), C("le", 1440)>>),
       Required("witness_count", "int", <<C("ge", 1), C("le", 100)>>),
       Defaulted("message_received", "optstr", NoneV, <<C("max_length", 500)>>),
       Defaulted("is_verified", "bool", BoolV(FALSE), <<>>) >>

CrewMemberFields ==
    << Required("member_id", "str", <<C("min_length", 3), C("max_length", 10)>>),
       Required("name", "str", <<C("min_length", 2), C("max_length", 50)>>),
       Required("rank", "Rank", <<>>),
       Required("age", "int", <<C("ge", 18), C("le", 80)>>),
       Required("specialization", "str", <<C("min_length", 3), C("max_length", 30)>>),
       Required("years_experience", "int", <<C("ge", 0), C("le", 50)>>),
       Defaulted("is_active", "bool", BoolV(TRUE), <<>>) >>

\* the crew list without its min_length
CrewListNoMin == <<C("max_length", 12)>>

CrewListConstraints == <<C("min_length", 1), C("max_length", 12)>>

SpaceMissionFields ==
    << Required("mission_id", "str", <<C("min_length", 5), C("max_length", 15)>>),
       Required("mission_name", "str", <<C("min_length", 3), C("max_length", 100)>>),
       Required("destination", "str", <<C("min_length", 3), C("max_length", 50)>>),
       Factory("launch_date", "datetime"),
       Required("duration_days", "int", <<C("ge", 1), C("le", 3650)>>),
       Required("crew", "List[CrewMember]", CrewListConstraints),
       Defaulted("mission_status", "str", StrV(Lit(<<"p", "l", "a", "n", "n", "e", "d">>)), <<>>),
       Required("budget_millions", "float", <<C("ge", Tenths(1, 0)), C("le", Tenths(10000, 0))>>) >>

Schemas == {"SpaceStation", "AlienContact", "CrewMember", "SpaceMission"}

FieldsOf(s) ==
    CASE s = "SpaceStation" -> SpaceStationFields
      [] s = "AlienContact" -> AlienContactFields
      [] s = "CrewMember" -> CrewMemberFields
      [] s = "SpaceMission" -> SpaceMissionFields

---------------------------------------------------------------------------
(* Field phase: pydantic's validation of the declared fields *)

Err(field, index, sub, type) ==
    [field |-> field, index |-> index, sub |-> sub, type |-> type]

Ok(v) == [ok |-> TRUE, v |-> v, err |-> ""]
Bad(err) == [ok |-> FALSE, v |-> 0, err |-> err]

\* the values of an Optional[str]
None == [some |-> FALSE, s |-> Lit(<<>>)]
Some(s) == [some |-> TRUE, s |-> s]

\* an enum field takes a member of the enum, or the str value of one
CoerceEnum(members, rv) ==
    IF rv.kind = "enum" /\ rv.v \in members THEN Ok(rv.v)
    ELSE IF rv.kind = "str" /\ \E m \in members : Lit(EnumValue(m)) = rv.v
         THEN Ok(CHOOSE m \in members : Lit(EnumValue(m)) = rv.v)
    ELSE Bad("enum")

CoerceStr(rv) ==
    IF rv.kind = "str" THEN Ok(rv.v) ELSE Bad("string_type")

\* Optional[str]
CoerceOptStr(rv) ==
    IF rv.kind = "none" THEN Ok(None)
    ELSE IF rv.kind = "str" THEN Ok(Some(rv.v)) ELSE Bad("string_type")

\* an int, a bool, or a float without a fractional part
CoerceInt(rv) ==
    IF rv.kind = "int" THEN Ok(rv.v)
    ELSE IF rv.kind = "bool" THEN Ok(IF rv.v THEN 1 ELSE 0)
    ELSE IF rv.kind = "float"
         THEN IF rv.v % 10 = 0 THEN Ok(rv.v \div 10) ELSE Bad("int_from_float")
    ELSE IF rv.kind = "str" THEN Bad("int_parsing") ELSE Bad("int_type")

CoerceFloat(rv) ==
    IF rv.kind = "float" THEN Ok(rv.v)
    ELSE IF rv.kind = "int" THEN Ok(Tenths(rv.v, 0))
    ELSE IF rv.kind = "bool" THEN Ok(IF rv.v THEN Tenths(1, 0) ELSE Tenths(0, 0))
    ELSE IF rv.kind = "str" THEN Bad("float_parsing") ELSE Bad("float_type")

CoerceBool(rv) ==
    IF rv.kind = "bool" THEN Ok(rv.v)
    ELSE IF rv.kind = "int"
         THEN IF rv.v \in {0, 1} THEN Ok(rv.v = 1) ELSE Bad("bool_parsing")
    ELSE IF rv.kind = "str" THEN Bad("bool_parsing") ELSE Bad("bool_type")

\* a datetime, or a number taken as a timestamp; a function is neither
\* a callable called for its result
CoerceDatetimeCalling(rv) ==
    IF rv.kind = "callable" THEN Ok("now")
    ELSE IF rv.kind \in {"datetime", "int"} THEN Ok(rv.v)
    ELSE IF rv.kind = "str" THEN Bad("datetime_from_date_parsing")
    ELSE Bad("datetime_type")

CoerceDatetime(rv) ==
    IF rv.kind = "datetime" THEN Ok(rv.v)
    ELSE IF rv.kind = "int" THEN Ok(rv.v)
    ELSE IF rv.kind = "str" THEN Bad("datetime_from_date_parsing")
    ELSE Bad("datetime_type")

CoerceList(rv) ==
    IF rv.kind = "list" THEN Ok(rv.v) ELSE Bad("list_type")

\* lax-mode conversion of a raw value to the annotated type
Coerce(type, rv) ==
    CASE type = "str" -> CoerceStr(rv)
      [] type = "optstr" -> CoerceOptStr(rv)
      [] type = "int" -> CoerceInt(rv)
      [] type = "float" -> CoerceFloat(rv)
      [] type = "bool" -> CoerceBool(rv)
      [] type = "datetime" -> CoerceDatetime(rv)
      [] type = "ContactType" -> CoerceEnum(ContactType, rv)
      [] type = "Rank" -> CoerceEnum(Rank, rv)
      [] type = "List[CrewMember]" -> CoerceList(rv)

\* what stands for the value of a field that failed (the model is not built)
Unset(type) ==
    CASE type = "str" -> Lit(<<>>)
      [] type = "optstr" -> None
      [] type \in {"int", "float", "datetime"} -> 0
      [] type = "bool" -> FALSE
      [] type \in {"ContactType", "Rank"} -> ""
      [] type = "List[CrewMember]" -> <<>>

\* the bounds taken as exclusive
ViolatesExclusive(c, type, v) ==
    CASE c.op = "min_length" -> (IF type = "List[CrewMember]" THEN Len(v) ELSE v.len) <= c.arg
      [] c.op = "max_length" -> (IF type = "List[CrewMember]" THEN Len(v) ELSE v.len) >= c.arg
      [] c.op = "ge" -> v <= c.arg
      [] c.op = "le" -> v >= c.arg

\* len(v) of a list or a str
LenOf(type, v) == IF type = "List[CrewMember]" THEN Len(v) ELSE v.len

\* whether typed value v breaks constraint c
Violates(c, type, v) ==
    CASE c.op = "min_length" -> LenOf(type, v) < c.arg
      [] c.op = "max_length" -> LenOf(type, v) > c.arg
      [] c.op = "ge" -> v < c.arg
      [] c.op = "le" -> v > c.arg

ErrorType(type, c) ==
    CASE c.op = "min_length" -> IF type = "List[CrewMember]" THEN "too_short" ELSE "string_too_short"
      [] c.op = "max_length" -> IF type = "List[CrewMember]" THEN "too_long" ELSE "string_too_long"
      [] c.op = "ge" -> "greater_than_equal"
      [] c.op = "le" -> "less_than_equal"

\* the first constraint of cs, in declared order, that v breaks (0 if none)
FirstViolated(cs, type, v) ==
    IF \E i \in 1..Len(cs) : Violates(cs[i], type, v)
    THEN CHOOSE i \in 1..Len(cs) :
            /\ Violates(cs[i], type, v)
            /\ \A j \in 1..(i - 1) : ~Violates(cs[j], type, v)
    ELSE 0

RECURSIVE Flatten(_)
Flatten(seqs) ==
    IF seqs = <<>> THEN <<>> ELSE Head(seqs) \o Flatten(Tail(seqs))

\* default_factory=datetime.now
datetime_now == "now"

\* a field that is not a list: [errors, value]
ValidateScalar(spec, rv) ==
    IF rv.kind = "missing"
    THEN CASE spec.dflt = "factory" -> [errors |-> <<>>, value |-> datetime_now]
           [] spec.dflt = "value" ->
                [errors |-> <<>>, value |-> Coerce(spec.type, spec.dval).v]
           [] spec.dflt = "required" ->
                [errors |-> <<Err(spec.name, -1, "", "missing")>>,
                 value |-> Unset(spec.type)]
    ELSE LET c == Coerce(spec.type, rv)
             checked == IF spec.type = "optstr" THEN c.v.s ELSE c.v
             skip == spec.type = "optstr" /\ ~c.v.some
             k == IF skip THEN 0 ELSE FirstViolated(spec.constraints, spec.type, checked)
         IN  IF ~c.ok
             THEN [errors |-> <<Err(spec.name, -1, "", c.err)>>,
                   value |-> Unset(spec.type)]
             ELSE IF k # 0
             THEN [errors |-> <<Err(spec.name, -1, "",
                                    ErrorType(spec.type, spec.constraints[k]))>>,
                   value |-> Unset(spec.type)]
             ELSE [errors |-> <<>>, value |-> c.v]

RECURSIVE ValidateFields(_, _)

\* one element of a List[CrewMember]: a CrewMember instance is taken as it
\* is, a dict is validated as CrewMember(**dict), anything else is refused
\* the elements located from 1
ValidateElementOneBased(spec, elem, i) ==
    CASE elem.kind = "instance" -> [errors |-> <<>>, value |-> elem.v]
      [] elem.kind = "dict" ->
            LET m == ValidateFields(CrewMemberFields, elem.v)
            IN  [errors |-> [j \in 1..Len(m.errors) |->
                                Err(spec.name, i, m.errors[j].field, m.errors[j].type)],
                 value |-> m.value]
      [] OTHER -> [errors |-> <<Err(spec.name, i, "", "model_type")>>,
                   value |-> <<>>]

ValidateElement(spec, elem, i) ==
    CASE elem.kind = "instance" -> [errors |-> <<>>, value |-> elem.v]
      [] elem.kind = "dict" ->
            LET m == ValidateFields(CrewMemberFields, elem.v)
            IN  [errors |-> [j \in 1..Len(m.errors) |->
                                Err(spec.name, i - 1, m.errors[j].field, m.errors[j].type)],
                 value |-> m.value]
      [] OTHER -> [errors |-> <<Err(spec.name, i - 1, "", "model_type")>>,
                   value |-> <<>>]

\* crew: the list is cut off with too_long, alone, as soon as it proves
\* longer than max_length; otherwise the elements' errors are collected, and
\* min_length is checked only when every element passed
ValidateList(spec, rv) ==
    IF rv.kind = "missing"
    THEN [errors |-> <<Err(spec.name, -1, "", "missing")>>, value |-> <<>>]
    ELSE LET c == Coerce(spec.type, rv)
             elems == c.v
             itemErrors ==
                Flatten([i \in 1..Len(elems) |-> ValidateElement(spec, elems[i], i).errors])
             k == FirstViolated(spec.constraints, spec.type, elems)
         IN  IF ~c.ok
             THEN [errors |-> <<Err(spec.name, -1, "", c.err)>>, value |-> <<>>]
             ELSE IF k # 0 /\ spec.constraints[k].op = "max_length"
             THEN [errors |-> <<Err(spec.name, -1, "", "too_long")>>, value |-> <<>>]
             ELSE IF itemErrors # <<>>
             THEN [errors |-> itemErrors, value |-> <<>>]
             ELSE IF k # 0
             THEN [errors |-> <<Err(spec.name, -1, "", "too_short")>>, value |-> <<>>]
             ELSE [errors |-> <<>>,
                   value |-> [i \in 1..Len(elems) |->
                                ValidateElement(spec, elems[i], i).value]]

ValidateField(spec, rv) ==
    IF spec.type = "List[CrewMember]"
    THEN ValidateList(spec, rv)
    ELSE ValidateScalar(spec, rv)

\* the field phase stopping at its first error
ValidateFieldsFirst(fields, kwargs) ==
    LET names == {fields[i].name : i \in 1..Len(fields)}
        at(n) == CHOOSE i \in 1..Len(fields) : fields[i].name = n
        all == Flatten([i \in 1..Len(fields) |->
                        ValidateField(fields[i], kwargs[fields[i].name]).errors])
    IN  [errors |-> IF all = <<>> THEN <<>> ELSE <<all[1]>>,
         value |-> [n \in names |-> ValidateField(fields[at(n)], kwargs[n]).value]]

\* every field is validated, in declaration order; the errors of all of
\* them are collected
ValidateFields(fields, kwargs) ==
    LET names == {fields[i].name : i \in 1..Len(fields)}
        at(n) == CHOOSE i \in 1..Len(fields) : fields[i].name = n
    IN  [errors |-> Flatten([i \in 1..Len(fields) |->
                        ValidateField(fields[i], kwargs[fields[i].name]).errors]),
         value |-> [n \in names |-> ValidateField(fields[at(n)], kwargs[n]).value]]

---------------------------------------------------------------------------
(* Rule phase: the model validators.  Each rule is the condition of one    *)
(* `if ...: raise ValueError(...)` statement; its outcome is "pass",       *)
(* "ValueError" or, for the division of rule 3, "ZeroDivisionError".       *)

NoError == [type |-> "", msg |-> "", inactive |-> <<>>]

Raise(cond) == IF cond THEN "ValueError" ELSE "pass"

\* truth value of an Optional[str]: None and "" are falsy
Truthy(opt) == opt.some /\ opt.s.len > 0

ContactRule1(self) ==
    Raise(Slice(self.contact_id, 2) # <<"A", "C">>)

ContactRule2(self) ==
    Raise(self.contact_type = "physical" /\ ~self.is_verified)

ContactRule3(self) ==
    Raise(self.contact_type = "telepathic" /\ self.witness_count < 3)

\* rule 4 with `is None` in place of `not`
ContactRule4IsNone(self) ==
    Raise(self.signal_strength > Tenths(7, 0) /\ ~self.message_received.some)

ContactRule4(self) ==
    Raise(self.signal_strength > Tenths(7, 0) /\ ~Truthy(self.message_received))

ContactRule(i, self) ==
    CASE i = 1 -> ContactRule1(self)
      [] i = 2 -> ContactRule2(self)
      [] i = 3 -> ContactRule3(self)
      [] i = 4 -> ContactRule4(self)

ContactMessage(i) ==
    CASE i = 1 -> "Contact ID must start with AC"
      [] i = 2 -> "Physical contact reports must be verified"
      [] i = 3 -> "Telepathic contact requires at least 3 witnesses"
      [] i = 4 -> "Strong signals (> 7.0) should include received messages"

Count(xs, P(_)) == Cardinality({i \in 1..Len(xs) : P(xs[i])})

MissionRule1(self) ==
    Raise(~StartsWith(self.mission_id, <<"M">>))

senior_ranks == {"commander", "captain"}

MissionRule2(self) ==
    LET has_senior == \E i \in 1..Len(self.crew) : self.crew[i].rank \in senior_ranks
    IN  Raise(~has_senior)

\* experience counted from 4 years
IsExperiencedFrom4(m) == m.years_experience >= 4

IsExperienced(m) == m.years_experience > 4

\* experienced / len(crew) < 0.5, for integers 0 <= experienced <= len <= 12
\* the float quotient is below 0.5 exactly when 2 * experienced < len
MissionRule3(self) ==
    IF self.duration_days > 365
    THEN LET experienced == Count(self.crew, IsExperienced)
         IN  IF Len(self.crew) = 0 THEN "ZeroDivisionError"
             ELSE Raise(2 * experienced < Len(self.crew))
    ELSE "pass"

IsInactive(m) == ~m.is_active

\* the names of the whole crew
InactiveUnfiltered(self) == [i \in 1..Len(self.crew) |-> self.crew[i].name]

\* [m.name for m in self.crew if not m.is_active]
Inactive(self) ==
    LET sel == SelectSeq(self.crew, IsInactive)
    IN  [i \in 1..Len(sel) |-> sel[i].name]

MissionRule4(self) == Raise(Inactive(self) # <<>>)

\* the rules with the second and the third statement exchanged
MissionRuleSwapped(i, self) ==
    CASE i = 1 -> MissionRule1(self)
      [] i = 2 -> MissionRule3(self)
      [] i = 3 -> MissionRule2(self)
      [] i = 4 -> MissionRule4(self)

MissionRule(i, self) ==
    CASE i = 1 -> MissionRule1(self)
      [] i = 2 -> MissionRule2(self)
      [] i = 3 -> MissionRule3(self)
      [] i = 4 -> MissionRule4(self)

MissionMessage(i) ==
    CASE i = 1 -> "Mission ID must start with 'M'"
      [] i = 2 -> "Mission must have at least one Commander or Captain"
      [] i = 3 -> "For long missions (> 365 days) need 50% experienced crew (5+ years)"
      [] i = 4 -> "All crew members must be active. Inactive members: "

\* the classes that carry a model_validator(mode="after")
HasValidator(s) == s \in {"AlienContact", "SpaceMission"}

---------------------------------------------------------------------------
(* The calls of the three main() functions *)

station1 ==
    [station_id |-> StrV(Lit(<<"I", "S", "S", "0", "0", "1">>)),
     name |-> StrV(Pad(<<"I", "n", "t">>, 27)),
     crew_size |-> IntV(6),
     power_level |-> FloatV(Tenths(85, 5)),
     oxygen_level |-> FloatV(Tenths(92, 3)),
     last_maintenance |-> Missing,
     is_operational |-> Missing,
     notes |-> Missing]

station2 == [station1 EXCEPT !.crew_size = IntV(155)]

contact1 ==
    [contact_id |-> StrV(Pad(<<"A", "C", "_", "2", "0", "2", "4">>, 11)),
     timestamp |-> Missing,
     location |-> StrV(Pad(<<"A", "r", "e", "a">>, 15)),
     contact_type |-> EnumV("radio"),
     signal_strength |-> FloatV(Tenths(8, 5)),
     duration_minutes |-> IntV(45),
     witness_count |-> IntV(5),
     message_received |-> StrV(Pad(<<"G", "r", "e", "e", "t">>, 28)),
     is_verified |-> Missing]

contact2 ==
    [contact1 EXCEPT !.contact_id = StrV(Pad(<<"A", "C", "_", "2", "0", "2", "0">>, 11)),
                     !.contact_type = EnumV("telepathic"),
                     !.witness_count = IntV(1)]

Member(id, name, rank, age, spec, years, active) ==
    [member_id |-> id, name |-> name, rank |-> rank, age |-> age,
     specialization |-> spec, years_experience |-> years, is_active |-> active]

member1 ==
    Member(StrV(Lit(<<"C", "0", "0", "1">>)), StrV(Pad(<<"S", "a", "r", "a", "h">>, 12)),
           EnumV("commander"), IntV(40), StrV(Pad(<<"M">>, 15)), IntV(15), Missing)
member2 ==
    Member(StrV(Lit(<<"C", "0", "0", "2">>)), StrV(Pad(<<"J", "o", "h", "n">>, 10)),
           EnumV("lieutenant"), IntV(32), StrV(Pad(<<"N">>, 10)), IntV(8), Missing)
member3 ==
    Member(StrV(Lit(<<"C", "0", "0", "3">>)), StrV(Pad(<<"A", "l", "i", "c", "e">>, 13)),
           EnumV("officer"), IntV(28), StrV(Pad(<<"E">>, 11)), IntV(5), Missing)
member4 ==
    Member(StrV(Lit(<<"C", "0", "0", "4">>)), StrV(Lit(<<"B", "o", "b">>)),
           EnumV("cadet"), IntV(22), StrV(Pad(<<"C">>, 8)), IntV(1), Missing)

\* CrewMember(**d) for keyword arguments d that validate
Instance(d) == InstanceV(ValidateFields(CrewMemberFields, d).value)

crew1 == <<Instance(member1), Instance(member2), Instance(member3)>>

crew2 == <<Instance(member4)>>

\* launch_date=datetime.now passes the function, not a datetime
mission1 ==
    [mission_id |-> StrV(Pad(<<"M", "2", "0", "2", "4">>, 10)),
     mission_name |-> StrV(Pad(<<"M", "a", "r", "s">>, 25)),
     destination |-> StrV(Lit(<<"M", "a", "r", "s">>)),
     launch_date |-> Callable,
     duration_days |-> IntV(900),
     crew |-> ListV(crew1),
     mission_status |-> Missing,
     budget_millions |-> FloatV(Tenths(2500, 0))]

mission2 ==
    [mission_id |-> StrV(Pad(<<"M", "2", "0", "2", "4">>, 10)),
     mission_name |-> StrV(Pad(<<"M", "o", "o", "n">>, 9)),
     destination |-> StrV(Lit(<<"M", "o", "o", "n">>)),
     launch_date |-> Callable,
     duration_days |-> IntV(30),
     crew |-> ListV(crew2),
     mission_status |-> Missing,
     budget_millions |-> FloatV(Tenths(500, 0))]

---------------------------------------------------------------------------
(* The explored calls: every call that differs from a call of main() in at *)
(* most MaxChanges keyword arguments, each changed argument drawn from the *)
(* values around its constraints, and the products of the values the rules *)
(* read.                                                                   *)

StrLens(prefix, lens) == {StrV(Pad(prefix, n)) : n \in lens}
Ints(ns) == {IntV(n) : n \in ns}
Floats(ns) == {FloatV(n) : n \in ns}

NamesOf(s) == [i \in 1..Len(FieldsOf(s)) |-> FieldsOf(s)[i].name]

RECURSIVE NearTuples(_, _, _, _, _)
NearTuples(names, base, alts, i, b) ==
    IF i > Len(names) THEN {<<>>}
    ELSE {<<base[names[i]]>> \o t : t \in NearTuples(names, base, alts, i + 1, b)}
         \cup
         (IF b = 0 THEN {}
          ELSE {<<v>> \o t : v \in alts[names[i]] \ {base[names[i]]},
                             t \in NearTuples(names, base, alts, i + 1, b - 1)})

Near(s, base, alts) ==
    LET names == NamesOf(s)
        at(n) == CHOOSE i \in 1..Len(names) : names[i] = n
    IN  {[n \in {names[i] : i \in 1..Len(names)} |-> t[at(n)]] :
            t \in NearTuples(names, base, alts, 1, MaxChanges)}

StationAlts ==
    [station_id |-> StrLens(<<"I", "S", "S">>, {2, 3, 10, 11}) \cup {Missing, IntV(1)},
     name |-> StrLens(<<"I">>, {0, 1, 50, 51}),
     crew_size |-> Ints({0, 1, 20, 21, 155})
                   \cup {FloatV(Tenths(6, 0)), FloatV(Tenths(6, 5))},
     power_level |-> Floats({-1, 0, Tenths(100, 0), Tenths(100, 1)}) \cup {IntV(85)},
     oxygen_level |-> Floats({-1, 0, Tenths(100, 0), Tenths(100, 1)}) \cup {Missing},
     last_maintenance |-> {DateV(1), Callable},
     is_operational |-> {BoolV(FALSE), IntV(2)},
     notes |-> {NoneV} \cup StrLens(<<>>, {0, 200, 201})]

StationInputs == Near("SpaceStation", station1, StationAlts) \cup {station2}

ContactAlts ==
    [contact_id |-> StrLens(<<"A", "C">>, {4, 5, 15, 16})
                    \cup StrLens(<<"A", "X">>, {5}) \cup StrLens(<<"X", "C">>, {5}),
     timestamp |-> {DateV(1)},
     location |-> StrLens(<<"A">>, {2, 3, 100, 101}),
     contact_type |-> {EnumV(t) : t \in ContactType}
                      \cup {StrV(Lit(EnumValue("visual"))), StrV(Lit(<<"s", "m", "s">>))},
     signal_strength |-> Floats({-1, 0, Tenths(7, 0), Tenths(7, 1), Tenths(10, 0), Tenths(10, 1)})
                         \cup Ints({8}),
     duration_minutes |-> Ints({0, 1, 1440, 1441}),
     witness_count |-> Ints({0, 1, 2, 3, 100, 101}),
     message_received |-> {NoneV} \cup StrLens(<<>>, {0, 1, 500, 501}),
     is_verified |-> {BoolV(TRUE), BoolV(FALSE)}]

ContactProduct ==
    {[contact1 EXCEPT !.contact_id = id, !.contact_type = EnumV(t), !.is_verified = ver,
                      !.witness_count = w, !.signal_strength = sig,
                      !.message_received = msg] :
        id \in StrLens(<<"A", "C">>, {5}) \cup StrLens(<<"A", "X">>, {5}),
        t \in ContactType,
        ver \in {Missing, BoolV(TRUE)},
        w \in Ints({2, 3}),
        sig \in Floats({Tenths(7, 0), Tenths(7, 1)}),
        msg \in {Missing, NoneV} \cup StrLens(<<>>, {0, 1})}

ContactInputs ==
    Near("AlienContact", contact1, ContactAlts) \cup {contact2} \cup ContactProduct

MemberAlts ==
    [member_id |-> StrLens(<<"C">>, {2, 3, 10, 11}),
     name |-> StrLens(<<"B">>, {1, 2, 50, 51}),
     rank |-> {EnumV(r) : r \in Rank} \cup {StrV(Lit(<<"a", "c", "e">>))},
     age |-> Ints({17, 18, 80, 81}),
     specialization |-> StrLens(<<"C">>, {2, 3, 30, 31}),
     years_experience |-> Ints({-1, 0, 50, 51}),
     is_active |-> {BoolV(FALSE), IntV(1)}]

MemberInputs ==
    Near("CrewMember", member1, MemberAlts) \cup {member2, member3, member4}

\* crew members over the values validate_mission reads
RuleProfiles ==
    {DictV(Member(StrV(Lit(<<"C", "0", "0">>)),
                  StrV(Lit(SubSeq(EnumValue(r), 1, 3) \o <<y.tag, a.tag>>)),
                  EnumV(r), IntV(30), StrV(Pad(<<"P">>, 5)), IntV(y.years), a.active)) :
        r \in {"captain", "lieutenant"},
        y \in {[tag |-> "4", years |-> 4], [tag |-> "5", years |-> 5]},
        a \in {[tag |-> "a", active |-> Missing], [tag |-> "i", active |-> BoolV(FALSE)]}}

\* crew members that fail CrewMember's field constraints
InvalidProfiles ==
    {DictV([member4 EXCEPT !.age = IntV(17)]),
     DictV([member1 EXCEPT !.age = IntV(81), !.years_experience = IntV(-1)])}

Profiles == RuleProfiles \cup InvalidProfiles \cup {Instance(member1)}

RECURSIVE SeqsUpTo(_, _)
SeqsUpTo(S, n) ==
    IF n = 0 THEN {<<>>}
    ELSE LET shorter == SeqsUpTo(S, n - 1)
         IN  shorter \cup {Append(t, x) : t \in {u \in shorter : Len(u) = n - 1}, x \in S}

Repeat(x, n) == [i \in 1..n |-> x]

MissionAlts ==
    [mission_id |-> StrLens(<<"M">>, {4, 5, 15, 16}) \cup StrLens(<<"X", "M">>, {5}),
     mission_name |-> StrLens(<<"M">>, {2, 3, 100, 101}),
     destination |-> StrLens(<<"M">>, {2, 3, 50, 51}),
     launch_date |-> {Missing, DateV(1)},
     duration_days |-> Ints({0, 1, 365, 366, 3650, 3651}),
     crew |-> {NoneV,
               ListV(<<>>),
               ListV(<<IntV(0)>>),
               ListV(Repeat(Instance(member1), 12)),
               ListV(Repeat(Instance(member1), 13)),
               ListV(<<DictV([member4 EXCEPT !.age = IntV(17)])>>
                     \o Repeat(Instance(member1), 11)),
               ListV(<<DictV([member4 EXCEPT !.age = IntV(17)])>>
                     \o Repeat(Instance(member1), 12))},
     mission_status |-> {StrV(Lit(<<"g", "o">>))},
     budget_millions |-> Floats({Tenths(0, 9), Tenths(1, 0), Tenths(10000, 0), Tenths(10000, 1)})]

MissionProduct ==
    {[mission1 EXCEPT !.launch_date = Missing, !.mission_id = id,
                      !.duration_days = d, !.crew = ListV(c)] :
        id \in StrLens(<<"M">>, {5}) \cup StrLens(<<"X", "M">>, {5}),
        d \in Ints({365, 366}),
        c \in SeqsUpTo(Profiles, MaxCrew)}

MissionInputs ==
    Near("SpaceMission", mission1, MissionAlts) \cup {mission2} \cup MissionProduct

Inputs(s) ==
    CASE s = "SpaceStation" -> StationInputs
      [] s = "AlienContact" -> ContactInputs
      [] s = "CrewMember" -> MemberInputs
      [] s = "SpaceMission" -> MissionInputs

---------------------------------------------------------------------------
(* The state machine *)

Init ==
    /\ pc = "idle"
    /\ schema = "none"
    /\ raw = <<>>
    /\ record = <<>>
    /\ line = 0
    /\ evaluated = {}
    /\ errors = <<>>
    /\ ruleError = NoError

\* Construct with the model validator run whatever the field phase found
ConstructUngated(s, kwargs) ==
    /\ LET r == ValidateFields(FieldsOf(s), kwargs)
       IN  /\ schema' = s
           /\ raw' = kwargs
           /\ errors' = r.errors
           /\ evaluated' = {}
           /\ ruleError' = NoError
           /\ record' = r.value
           /\ IF HasValidator(s)
              THEN pc' = "validator" /\ line' = 1
              ELSE pc' = (IF r.errors # <<>> THEN "raised" ELSE "returned") /\ line' = 0

\* s(**kwargs): the field phase; a ValidationError with every field error,
\* or the model handed to the class's model validator, or returned
Construct(s, kwargs) ==
    /\ LET r == ValidateFields(FieldsOf(s), kwargs)
       IN  /\ schema' = s
           /\ raw' = kwargs
           /\ errors' = r.errors
           /\ evaluated' = {}
           /\ ruleError' = NoError
           /\ IF r.errors # <<>>
              THEN pc' = "raised" /\ record' = <<>> /\ line' = 0
              ELSE IF HasValidator(s)
              THEN pc' = "validator" /\ record' = r.value /\ line' = 1
              ELSE pc' = "returned" /\ record' = r.value /\ line' = 0

SpaceStation ==
    /\ pc = "idle"
    /\ \E kw \in StationInputs : Construct("SpaceStation", kw)

AlienContact ==
    /\ pc = "idle"
    /\ \E kw \in ContactInputs : Construct("AlienContact", kw)

CrewMember ==
    /\ pc = "idle"
    /\ \E kw \in MemberInputs : Construct("CrewMember", kw)

SpaceMission ==
    /\ pc = "idle"
    /\ \E kw \in MissionInputs : Construct("SpaceMission", kw)

\* one `if` statement of a model validator: raise, or fall through to the
\* next statement, or `return self` after the last
RunRule(outcome, msg, names) ==
    /\ evaluated' = evaluated \cup {line}
    /\ IF outcome = "pass"
       THEN /\ ruleError' = ruleError
            /\ IF line = 4
               THEN pc' = "returned" /\ line' = 0
               ELSE pc' = pc /\ line' = line + 1
       ELSE /\ pc' = "raised"
            /\ line' = line
            /\ ruleError' = [type |-> outcome, msg |-> msg, inactive |-> names]
    /\ UNCHANGED <<schema, raw, record, errors>>

validate_contact ==
    /\ pc = "validator"
    /\ schema = "AlienContact"
    /\ RunRule(ContactRule(line, record), ContactMessage(line), <<>>)

validate_mission ==
    /\ pc = "validator"
    /\ schema = "SpaceMission"
    /\ RunRule(MissionRule(line, record), MissionMessage(line),
               IF line = 4 THEN Inactive(record) ELSE <<>>)

\* the caller's try/except has consumed the result
Return ==
    /\ pc \in {"returned", "raised"}
    /\ pc' = "idle"
    /\ schema' = "none"
    /\ raw' = <<>>
    /\ record' = <<>>
    /\ line' = 0
    /\ evaluated' = {}
    /\ errors' = <<>>
    /\ ruleError' = NoError

Next ==
    \/ SpaceStation
    \/ AlienContact
    \/ CrewMember
    \/ SpaceMission
    \/ validate_contact
    \/ validate_mission
    \/ Return

Spec == Init /\ [][Next]_vars

---------------------------------------------------------------------------
(* The rules as the specification words them, over a constructed model *)

Chars(str) == Slice(str, str.len)

ContactBreaks(i, m) ==
    CASE i = 1 -> ~(m.contact_id.len >= 2 /\ Chars(m.contact_id)[1] = "A"
                                         /\ Chars(m.contact_id)[2] = "C")
      [] i = 2 -> m.contact_type = "physical" /\ m.is_verified = FALSE
      [] i = 3 -> m.contact_type = "telepathic" /\ ~(m.witness_count >= 3)
      [] i = 4 -> m.signal_strength >= 71
                  /\ (m.message_received = None \/ m.message_received.s.len = 0)

ExperiencedCount(crew) ==
    Cardinality({i \in DOMAIN crew : crew[i].years_experience >= 5})

MissionBreaks(i, m) ==
    CASE i = 1 -> ~(m.mission_id.len >= 1 /\ Chars(m.mission_id)[1] = "M")
      [] i = 2 -> \A k \in DOMAIN m.crew : m.crew[k].rank \notin {"commander", "captain"}
      [] i = 3 -> m.duration_days >= 366 /\ 10 * ExperiencedCount(m.crew) < 5 * Len(m.crew)
      [] i = 4 -> \E k \in DOMAIN m.crew : m.crew[k].is_active = FALSE

Breaks(i) ==
    IF schema = "AlienContact" THEN ContactBreaks(i, record) ELSE MissionBreaks(i, record)

Broken == {i \in 1..4 : Breaks(i)}

MessageOf(i) ==
    IF schema = "AlienContact" THEN ContactMessage(i) ELSE MissionMessage(i)

InRulePhase == schema \in {"AlienContact", "SpaceMission"} /\ errors = <<>> /\ pc # "idle"

---------------------------------------------------------------------------
(* C1: validation is two-phase.  A rule of a model validator is evaluated  *)
(* only after a field phase without errors, only AlienContact and          *)
(* SpaceMission ever report a rule error, and a failed validation reports  *)
(* either a non-empty list of field errors or exactly one rule error:      *)
(* never both, never neither.                                              *)
C1_TwoPhase ==
    /\ (evaluated # {} \/ pc = "validator") => errors = <<>>
    /\ ruleError # NoError =>
          pc = "raised" /\ schema \in {"AlienContact", "SpaceMission"}
    /\ pc = "raised" => ((errors # <<>>) # (ruleError # NoError))

\* a contact that fails a field constraint and would also break rule 1
C1_Witness ==
    /\ pc = "raised"
    /\ schema = "AlienContact"
    /\ errors # <<>>
    /\ raw.contact_id = StrV(Pad(<<"A", "X">>, 5))
    /\ evaluated = {}

---------------------------------------------------------------------------
(* C3: fail-fast rule order.  When a model validator raises, the error is  *)
(* that of the first rule, in the order of the specification, that the     *)
(* model breaks; the rules before it were evaluated and passed, no rule    *)
(* after it was evaluated.  A model that is returned breaks no rule.       *)
C3_FailFast ==
    InRulePhase =>
        /\ pc = "raised" =>
              /\ Broken # {}
              /\ \A j \in Broken : line <= j
              /\ line \in Broken
              /\ ruleError.msg = MessageOf(line)
              /\ evaluated = 1..line
        /\ pc = "returned" => Broken = {} /\ evaluated = 1..4
        /\ pc = "validator" => evaluated = 1..(line - 1) /\ Broken \cap evaluated = {}

\* a model that breaks two rules, the first of them not rule 1
C3_Witness ==
    /\ InRulePhase
    /\ pc = "raised"
    /\ Cardinality(Broken) >= 2
    /\ line >= 2

---------------------------------------------------------------------------
(* C4 as claimed: a contact that reached rule 4 fails exactly when         *)
(* signal_strength > 7.0 and message_received is None.                     *)
C4_AsClaimed ==
    (schema = "AlienContact" /\ 4 \in evaluated) =>
        (pc = "raised" <=>
            (record.signal_strength > Tenths(7, 0) /\ record.message_received = None))

(* C4: rule 4 of AlienContact.  A contact that passed the field phase and  *)
(* rules 1-3 fails with the strong-signal error exactly when               *)
(* signal_strength > 7.0 and message_received is None or the empty         *)
(* string; a message of 1 to 500 characters satisfies the rule, and a      *)
(* signal of 7.0 or less never triggers it.                                *)
C4_Rule4 ==
    (schema = "AlienContact" /\ 4 \in evaluated) =>
        /\ pc \in {"raised", "returned"}
        /\ pc = "raised" <=>
              /\ record.signal_strength > Tenths(7, 0)
              /\ (record.message_received = None \/ record.message_received.s.len = 0)
        /\ pc = "raised" =>
              ruleError.msg = "Strong signals (> 7.0) should include received messages"
        /\ record.signal_strength <= Tenths(7, 0) => pc = "returned"
        /\ (record.message_received.some /\ record.message_received.s.len \in 1..500)
              => pc = "returned"

\* a strong signal whose message is the empty string is refused by rule 4
C4_Witness ==
    /\ schema = "AlienContact"
    /\ 4 \in evaluated
    /\ pc = "raised"
    /\ record.message_received.some
    /\ record.signal_strength = Tenths(7, 1)

---------------------------------------------------------------------------
(* C5: rule 3 of SpaceMission.  A mission that passed the field phase and  *)
(* rules 1-2 is rejected by the 50%-experienced rule exactly when          *)
(* duration_days > 365 and fewer than half of the crew have more than 4    *)
(* years of experience: a ratio of exactly 0.5 passes, a member with 4     *)
(* years is not experienced, and a mission of 365 days or less is never    *)
(* rejected by this rule.                                                  *)
C5_Rule3 ==
    (schema = "SpaceMission" /\ 3 \in evaluated) =>
        LET n == Len(record.crew)
            e == Cardinality({i \in 1..n : record.crew[i].years_experience >= 5})
            rejected == pc = "raised" /\ line = 3
        IN  /\ rejected <=> (record.duration_days >= 366 /\ 10 * e < 5 * n)
            /\ rejected =>
                  ruleError.msg =
                    "For long missions (> 365 days) need 50% experienced crew (5+ years)"
            /\ record.duration_days <= 365 => ~rejected
            /\ 2 * e = n => ~rejected

\* a long mission, half of whose crew has 5 years and half 4, passes rule 3
C5_Witness ==
    /\ schema = "SpaceMission"
    /\ 3 \in evaluated
    /\ ~(pc = "raised" /\ line = 3)
    /\ record.duration_days = 366
    /\ Len(record.crew) = 2
    /\ \E i, j \in 1..2 : /\ record.crew[i].years_experience = 5
                          /\ record.crew[j].years_experience = 4

---------------------------------------------------------------------------
(* C7: rule 4 of SpaceMission.  A mission that passed the field phase and  *)
(* rules 1-3 fails with the all-active error exactly when some crew        *)
(* member has is_active = false, and the error lists the names of the      *)
(* inactive members, all of them and no active one, in crew order.         *)
RECURSIVE NamesOfInactive(_)
NamesOfInactive(crew) ==
    IF crew = <<>> THEN <<>>
    ELSE (IF Head(crew).is_active = FALSE THEN <<Head(crew).name>> ELSE <<>>)
         \o NamesOfInactive(Tail(crew))

C7_Rule4 ==
    (schema = "SpaceMission" /\ 4 \in evaluated) =>
        /\ pc \in {"raised", "returned"}
        /\ pc = "raised" <=> \E i \in 1..Len(record.crew) : ~record.crew[i].is_active
        /\ pc = "raised" =>
              /\ ruleError.msg = "All crew members must be active. Inactive members: "
              /\ ruleError.inactive = NamesOfInactive(record.crew)
        /\ pc = "returned" => ruleError = NoError

\* a crew with an active member followed by an inactive one
C7_Witness ==
    /\ schema = "SpaceMission"
    /\ 4 \in evaluated
    /\ pc = "raised"
    /\ Len(record.crew) = 2
    /\ record.crew[1].is_active
    /\ ~record.crew[2].is_active
    /\ ruleError.inactive = <<record.crew[2].name>>

---------------------------------------------------------------------------
(* The Range and Length constraints as the specification lists them        *)
(* (section 4.4): [schema, field, kind, min, max], kind "len" for the      *)
(* length of a str or of a list, "int", or "float" (in tenths).  A field   *)
(* without a lower bound has min = -1 under kind "len".                    *)

B(s, f, kind, lo, hi) == [schema |-> s, field |-> f, kind |-> kind, min |-> lo, max |-> hi]

Bounds ==
    { B("SpaceStation", "station_id", "len", 3, 10),
      B("SpaceStation", "name", "len", 1, 50),
      B("SpaceStation", "crew_size", "int", 1, 20),
      B("SpaceStation", "power_level", "float", 0, 1000),
      B("SpaceStation", "oxygen_level", "float", 0, 1000),
      B("SpaceStation", "notes", "len", -1, 200),
      B("AlienContact", "contact_id", "len", 5, 15),
      B("AlienContact", "location", "len", 3, 100),
      B("AlienContact", "signal_strength", "float", 0, 100),
      B("AlienContact", "duration_minutes", "int", 1, 1440),
      B("AlienContact", "witness_count", "int", 1, 100),
      B("AlienContact", "message_received", "len", -1, 500),
      B("CrewMember", "member_id", "len", 3, 10),
      B("CrewMember", "name", "len", 2, 50),
      B("CrewMember", "age", "int", 18, 80),
      B("CrewMember", "specialization", "len", 3, 30),
      B("CrewMember", "years_experience", "int", 0, 50),
      B("SpaceMission", "mission_id", "len", 5, 15),
      B("SpaceMission", "mission_name", "len", 3, 100),
      B("SpaceMission", "destination", "len", 3, 50),
      B("SpaceMission", "duration_days", "int", 1, 3650),
      B("SpaceMission", "crew", "len", 1, 12),
      B("SpaceMission", "budget_millions", "float", 10, 100000) }

\* whether raw value rv is of the kind the bound measures
Measurable(b, rv) ==
    CASE b.kind = "len" -> rv.kind \in {"str", "list"}
      [] b.kind = "int" -> rv.kind = "int"
      [] b.kind = "float" -> rv.kind = "float"

Measure(b, rv) ==
    IF rv.kind = "str" THEN rv.v.len
    ELSE IF rv.kind = "list" THEN Len(rv.v)
    ELSE rv.v

OutOfBounds(b, rv) ==
    Measurable(b, rv) /\ (Measure(b, rv) < b.min \/ Measure(b, rv) > b.max)

\* the result carries an error located at field f itself
ErrorOn(f) ==
    \E i \in 1..Len(errors) : errors[i].field = f /\ errors[i].index = -1

---------------------------------------------------------------------------
(* C9: boundary inclusivity.  For every Range and Length constraint of     *)
(* SpaceStation, AlienContact, CrewMember and SpaceMission, a value equal  *)
(* to the minimum or to the maximum raises no error on its field, and a    *)
(* value one unit below the minimum or above the maximum makes the         *)
(* construction fail with an error on that field.                          *)
C9_Boundaries ==
    \A b \in Bounds :
        (schema = b.schema /\ Measurable(b, raw[b.field])) =>
            LET x == Measure(b, raw[b.field])
            IN  /\ x \in {b.min, b.max} => ~ErrorOn(b.field)
                /\ x \in {b.min - 1, b.max + 1} \cap Nat =>
                      pc = "raised" /\ ErrorOn(b.field)
                /\ (x = b.min - 1 /\ b.kind # "len") =>
                      pc = "raised" /\ ErrorOn(b.field)

\* a crew of 13 is refused on crew, next to a mission id one character short
C9_Witness ==
    /\ schema = "SpaceMission"
    /\ raw.crew.kind = "list"
    /\ Len(raw.crew.v) = 13
    /\ raw.mission_id.v.len = 4
    /\ pc = "raised"
    /\ ErrorOn("crew")
    /\ ErrorOn("mission_id")

---------------------------------------------------------------------------
(* C10: whenever validate_mission runs, the crew holds between 1 and 12    *)
(* members, each satisfying CrewMember's constraints, so the division of   *)
(* rule 3 is never by zero; a mission fails only with field errors or with *)
(* the ValueError of one of the four rules.                                *)
ValidMember(m) ==
    /\ m.member_id.len \in 3..10
    /\ m.name.len \in 2..50
    /\ m.rank \in {"cadet", "officer", "lieutenant", "captain", "commander"}
    /\ m.age \in 18..80
    /\ m.specialization.len \in 3..30
    /\ m.years_experience \in 0..50
    /\ m.is_active \in BOOLEAN

C10_CrewNonEmpty ==
    schema = "SpaceMission" =>
        /\ (pc = "validator" \/ evaluated # {}) =>
              /\ Len(record.crew) \in 1..12
              /\ \A i \in 1..Len(record.crew) : ValidMember(record.crew[i])
        /\ ruleError.type \in {"", "ValueError"}
        /\ pc = "raised" =>
              \/ errors # <<>> /\ ruleError = NoError
              \/ errors = <<>> /\ ruleError.type = "ValueError"
                               /\ \E i \in 1..4 : ruleError.msg = MissionMessage(i)

\* rule 3 divides by the size of a one-member crew
C10_Witness ==
    /\ schema = "SpaceMission"
    /\ 3 \in evaluated
    /\ record.duration_days > 365
    /\ Len(record.crew) = 1

---------------------------------------------------------------------------
mission1Dated == [mission1 EXCEPT !.launch_date = Missing]

---------------------------------------------------------------------------
\* the CrewMember fields of a crew element given as a dict that are out of bounds
ElementViolations(elem) ==
    IF elem.kind = "dict"
    THEN {b.field : b \in {c \in Bounds : c.schema = "CrewMember"
                                          /\ OutOfBounds(c, elem.v[c.field])}}
    ELSE {}

\* element k of the crew is reported, field by field, and no rule has run
ElementReported(k) ==
    /\ pc = "raised"
    /\ evaluated = {}
    /\ ruleError = NoError
    /\ \A f \in ElementViolations(raw.crew.v[k]) :
          \E i \in 1..Len(errors) :
              errors[i].field = "crew" /\ errors[i].index = k - 1 /\ errors[i].sub = f

---------------------------------------------------------------------------
\* whether raw value rv is of the declared type, no conversion needed
KindOk(type, rv) ==
    CASE type = "str" -> rv.kind = "str"
      [] type = "optstr" -> rv.kind \in {"str", "none"}
      [] type = "int" -> rv.kind = "int"
      [] type = "float" -> rv.kind = "float"
      [] type = "bool" -> rv.kind = "bool"
      [] type = "datetime" -> rv.kind = "datetime"
      [] type \in {"ContactType", "Rank"} -> rv.kind = "enum"
      [] OTHER -> FALSE

ScalarsWellTyped(fields, kw) ==
    \A i \in 1..Len(fields) :
        \/ fields[i].type = "List[CrewMember]"
        \/ kw[fields[i].name].kind = "missing"
        \/ KindOk(fields[i].type, kw[fields[i].name])

\* every supplied value is of its field's type, the crew a list of
\* CrewMember instances and of dicts of well-typed values
WellTyped ==
    /\ schema \in Schemas
    /\ ScalarsWellTyped(FieldsOf(schema), raw)
    /\ schema = "SpaceMission" =>
          \/ raw.crew.kind = "missing"
          \/ /\ raw.crew.kind = "list"
             /\ \A k \in 1..Len(raw.crew.v) :
                   \/ raw.crew.v[k].kind = "instance"
                   \/ /\ raw.crew.v[k].kind = "dict"
                      /\ ScalarsWellTyped(CrewMemberFields, raw.crew.v[k].v)

\* a required field left out, or a value outside the bounds of its field
FieldViolated(s, spec, rv) ==
    \/ rv.kind = "missing" /\ spec.dflt = "required"
    \/ \E b \in Bounds : b.schema = s /\ b.field = spec.name /\ OutOfBounds(b, rv)

\* the locations <<field, index, sub>> of the violations of one crew element
MemberLocs(elem, idx) ==
    IF elem.kind # "dict" THEN <<>>
    ELSE Flatten([j \in 1..Len(CrewMemberFields) |->
            IF FieldViolated("CrewMember", CrewMemberFields[j],
                             elem.v[CrewMemberFields[j].name])
            THEN << <<"crew", idx, CrewMemberFields[j].name>> >>
            ELSE <<>>])

\* every violation counted: the size of the list and each element's fields
CrewLocsAsClaimed(elems) ==
    (IF Len(elems) \in 1..12 THEN <<>> ELSE << <<"crew", -1, "">> >>)
    \o Flatten([k \in 1..Len(elems) |-> MemberLocs(elems[k], k - 1)])

\* a list of more than 12 elements counts once, whatever its elements
CrewLocs(elems) ==
    IF Len(elems) > 12 THEN << <<"crew", -1, "">> >> ELSE CrewLocsAsClaimed(elems)

ViolationsAsClaimed ==
    Flatten([i \in 1..Len(FieldsOf(schema)) |->
        LET spec == FieldsOf(schema)[i]
            rv == raw[spec.name]
        IN  IF rv.kind = "list" THEN CrewLocsAsClaimed(rv.v)
            ELSE IF FieldViolated(schema, spec, rv) THEN << <<spec.name, -1, "">> >>
            ELSE <<>>])

Violations ==
    Flatten([i \in 1..Len(FieldsOf(schema)) |->
        LET spec == FieldsOf(schema)[i]
            rv == raw[spec.name]
        IN  IF rv.kind = "list" THEN CrewLocs(rv.v)
            ELSE IF FieldViolated(schema, spec, rv) THEN << <<spec.name, -1, "">> >>
            ELSE <<>>])

Locations == [i \in 1..Len(errors) |-> <<errors[i].field, errors[i].index, errors[i].sub>>]

===========================================================================
